---- MODULE Spec2Model ----
(***************************************************************************)
(* neo4j_tools: gds_db_load.py.  Query synthesis (_make_map,               *)
(* _make_set_clause, _make_node_merge_query, _make_rel_merge_query),       *)
(* chunks, and the chunked loaders load_nodes / load_rels driving an       *)
(* injected execution capability (gds.run_cypher).                         *)
(*                                                                         *)
(* A query text is a sequence of string fragments: every literal piece of  *)
(* an f-string and every interpolated value is one fragment, and string    *)
(* concatenation is sequence concatenation.                                *)
(*                                                                         *)
(* A Python value whose type the code inspects is a record [t, v]: t is    *)
(* the name of its type and v the sequence of its items.                   *)
(***************************************************************************)
EXTENDS Integers, Sequences, FiniteSets, TLC

VARIABLES
    pc,                 \* where the caller / the running load is
    kind,               \* "none", "nodes" (load_nodes), "rels" (load_rels)
    gds,                \* the execution capability: "db" or "stub"
    args,               \* the arguments of the running call
    records,            \* records = df.to_dict('records')
    total,              \* total = len(records)
    query,              \* the synthesized query text
    chunkList,          \* chunks(records, chunk_size), the list the for loop iterates
    k,                  \* number of chunks the loop has taken so far
    cumulative_count,   \* cumulative_count
    results,            \* the scalar each completed run_cypher call returned
    events,             \* the observable trace: prints and run_cypher calls / returns
    raised,             \* the exception that left the call, "none" when none
    db,                 \* the graph database behind gds
    db0,                \* the database as it was when the running call began
    relKeysUsed,        \* the rel_key arguments load_rels was called with so far
    nrows               \* number of rows handed to the loaders so far

vars == <<pc, kind, gds, args, records, total, query, chunkList, k,
          cumulative_count, results, events, raised, db, db0, relKeysUsed, nrows>>

-----------------------------------------------------------------------------
(* Bounds *)

MaxXs == 5          \* longest sequence handed to chunks on its own
MaxN == 6           \* largest chunk size handed to chunks on its own
MaxRows == 3        \* rows handed to the loaders in one behaviour, over all calls
MaxChunk == 2       \* largest chunk_size handed to a loader
MaxCount == 1       \* largest scalar a stub execution capability returns

Values == {1, 2}    \* the values of dataframe cells

-----------------------------------------------------------------------------
(* Python values *)

Str(s) == [t |-> "str", v |-> <<s>>]
Tuple(s) == [t |-> "tuple", v |-> s]
List(s) == [t |-> "list", v |-> s]
None == [t |-> "NoneType", v |-> <<>>]

Min(a, b) == IF a < b THEN a ELSE b
max(a, b) == IF a > b THEN a ELSE b

\* sep.join(parts), each part a text
RECURSIVE join(_, _)
join(parts, sep) ==
    IF Len(parts) = 0 THEN <<>>
    ELSE IF Len(parts) = 1 THEN parts[1]
    ELSE parts[1] \o <<sep>> \o join(Tail(parts), sep)

\* range(start, stop, step) for step > 0
range(start, stop, step) ==
    IF stop <= start THEN <<>>
    ELSE [j \in 1..((stop - start + step - 1) \div step) |-> start + (j - 1) * step]

\* xs[i:j] for 0 <= i <= j (the slice ends at len(xs) at the latest)
Slice(xs, i, j) == SubSeq(xs, i + 1, Min(j, Len(xs)))

-----------------------------------------------------------------------------
(* Query synthesis *)

\* _make_map returning a pair the wrong way round
_make_map_swapped(x) ==
    IF x.t = "str" THEN [raised |-> "none", v |-> <<x.v[1], x.v[1]>>]
    ELSE IF x.t = "tuple"
    THEN [raised |-> "none",
          v |-> IF Len(x.v) >= 2 THEN <<x.v[2], x.v[1]>> \o SubSeq(x.v, 3, Len(x.v))
                ELSE x.v]
    ELSE [raised |-> "Exception", v |-> <<>>]

_make_map(x) ==
    IF x.t = "str" THEN [raised |-> "none", v |-> <<x.v[1], x.v[1]>>]
    ELSE IF x.t = "tuple" THEN [raised |-> "none", v |-> x.v]
    ELSE [raised |-> "Exception", v |-> <<>>]

\* _make_set_clause naming the first property in every assignment
_make_set_clause_first(prop_names, element_name, item_name) ==
    <<"SET ">> \o join([i \in 1..Len(prop_names) |->
                          <<element_name, ".", prop_names[1], " = ",
                            item_name, ".", prop_names[1]>>], ", ")

_make_set_clause(prop_names, element_name, item_name) ==
    LET clause_list == [i \in 1..Len(prop_names) |->
                          <<element_name, ".", prop_names[i], " = ",
                            item_name, ".", prop_names[i]>>]
    IN  <<"SET ">> \o join(clause_list, ", ")

NodeHead == "UNWIND $recs AS rec\nMERGE(n:"
NodeReturn == "\nRETURN count(n) AS nodeLoadedCount"

\* _make_node_merge_query merging on the last column of the frame, not on the key
_make_node_merge_query_last(node_key_name, node_label, cols) ==
    LET template == <<NodeHead, node_label, " {", node_key_name, ": rec.",
                      cols[Len(cols)], "})">>
        prop_names == SelectSeq(cols, LAMBDA x : x # node_key_name)
    IN  (IF Len(prop_names) > 0
            THEN template \o <<"\n">> \o _make_set_clause(prop_names, "n", "rec")
            ELSE template)
        \o <<NodeReturn>>

_make_node_merge_query(node_key_name, node_label, cols) ==
    LET template == <<NodeHead, node_label, " {", node_key_name, ": rec.",
                      node_key_name, "})">>
        prop_names == SelectSeq(cols, LAMBDA x : x # node_key_name)
    IN  (IF Len(prop_names) > 0
            THEN template \o <<"\n">> \o _make_set_clause(prop_names, "n", "rec")
            ELSE template)
        \o <<NodeReturn>>

\* The source endpoint found or created instead of matched
RelHead_merge == "\tUNWIND $recs AS rec\n    MERGE(s:"

RelHead == "\tUNWIND $recs AS rec\n    MATCH(s:"
RelMatchT == "})\n    MATCH(t:"
RelMatchEnd == "})\n\t"
RelReturn == "\n\tRETURN count(r) AS relLoadedCount"

\* merge_statement without the rel_key branch
merge_statement_plain(rel_type, rel_key) == <<"MERGE(s)-[r:", rel_type, "]->(t)">>

\* The local merge_statement of _make_rel_merge_query
merge_statement(rel_type, rel_key) ==
    IF rel_key.t # "NoneType"
    THEN <<"MERGE(s)-[r:", rel_type, " {", rel_key.v[1], ": rec.", rel_key.v[1],
           "}]->(t)">>
    ELSE <<"MERGE(s)-[r:", rel_type, "]->(t)">>

\* x[i] of a Python tuple (0-based) exists
HasItem(x, i) == Len(x) >= i + 1

_make_rel_merge_query(source_target_labels, source_node_key, target_node_key, rel_type, cols, rel_key) ==
    LET source_target_label_map == _make_map(source_target_labels)
        source_node_key_map == _make_map(source_node_key)
        target_node_key_map == _make_map(target_node_key)
        lm == source_target_label_map.v
        sm == source_node_key_map.v
        tm == target_node_key_map.v
        template == <<RelHead, lm[1], " {", sm[1], ": rec.", sm[2],
                      RelMatchT, lm[2], " {", tm[1], ": rec.", tm[2],
                      RelMatchEnd>> \o merge_statement(rel_type, rel_key)
        excluded == (IF rel_key.t # "NoneType" THEN {rel_key.v[1]} ELSE {})
                    \cup {sm[2], tm[2]}
        prop_names == SelectSeq(cols, LAMBDA x : x \notin excluded)
    IN  IF \/ source_target_label_map.raised # "none"
           \/ source_node_key_map.raised # "none"
           \/ target_node_key_map.raised # "none"
        THEN [raised |-> "Exception", q |-> <<>>]
        ELSE IF ~(HasItem(lm, 1) /\ HasItem(sm, 1) /\ HasItem(tm, 1))
        THEN [raised |-> "IndexError", q |-> <<>>]
        ELSE [raised |-> "none",
              q |-> (IF Len(prop_names) > 0
                       THEN template \o <<"\n\t">>
                            \o _make_set_clause(prop_names, "r", "rec")
                       ELSE template)
                    \o <<RelReturn>>]

-----------------------------------------------------------------------------
(* chunks *)

\* chunks without n = max(1, n): a chunk size below 1 gives one chunk of everything
chunks_noclamp(xs, n) ==
    LET m == IF n < 1 THEN Len(xs) + 1 ELSE n
    IN  [j \in 1..Len(range(0, Len(xs), m)) |->
            Slice(xs, range(0, Len(xs), m)[j], range(0, Len(xs), m)[j] + m)]

chunks(xs, n) ==
    LET m == max(1, n)
        starts == range(0, Len(xs), m)
    IN  [j \in 1..Len(starts) |-> Slice(xs, starts[j], starts[j] + m)]

-----------------------------------------------------------------------------
(* The graph database behind gds.run_cypher.  A node is [id, label, props],  *)
(* a relationship [id, src, dst, type, props]; props maps property names to  *)
(* values.  run_cypher executes the statement the query text spells out,     *)
(* over the rows of $recs in order, as one transaction.                      *)

EmptyDB == [nodes |-> {}, rels |-> {}]

\* rec.col is null when the record has no such key
HasCol(rec, col) == col \in DOMAIN rec

\* First position of fragment f in q at or after position i, 0 when there is none
RECURSIVE Find(_, _, _)
Find(q, f, i) ==
    IF i > Len(q) THEN 0 ELSE IF q[i] = f THEN i ELSE Find(q, f, i + 1)

\* The assignments "x.prop = rec.col" of a SET clause whose first one starts at i
RECURSIVE ParseSet(_, _)
ParseSet(q, i) ==
    IF i + 6 > Len(q) \/ q[i + 1] # "." \/ q[i + 3] # " = " THEN <<>>
    ELSE <<[prop |-> q[i + 2], col |-> q[i + 6]]>>
         \o (IF i + 7 <= Len(q) /\ q[i + 7] = ", " THEN ParseSet(q, i + 8) ELSE <<>>)

SetItems(q) == IF Find(q, "SET ", 1) = 0 THEN <<>> ELSE ParseSet(q, Find(q, "SET ", 1) + 1)

\* SET x.prop = rec.col: assigning null removes the property
Assign(props, prop, rec, col) ==
    IF HasCol(rec, col)
    THEN [p \in DOMAIN props \cup {prop} |-> IF p = prop THEN rec[col] ELSE props[p]]
    ELSE [p \in DOMAIN props \ {prop} |-> props[p]]

RECURSIVE SetProps(_, _, _)
SetProps(props, sets, rec) ==
    IF Len(sets) = 0 THEN props
    ELSE SetProps(Assign(props, sets[1].prop, rec, sets[1].col), Tail(sets), rec)

\* (x:label {prop: val})
MatchNodes(nodes, label, prop, val) ==
    {n \in nodes : n.label = label /\ prop \in DOMAIN n.props /\ n.props[prop] = val}

\* MERGE(n:label {keyProp: rec.keyCol}) SET ... for one row: [db, count, failed]
MergeNodeRow(d, label, keyProp, keyCol, sets, rec) ==
    IF ~HasCol(rec, keyCol) THEN [db |-> d, count |-> 0, failed |-> TRUE]
    ELSE
    LET found == MatchNodes(d.nodes, label, keyProp, rec[keyCol])
        created == [id |-> Cardinality(d.nodes) + 1, label |-> label,
                    props |-> (keyProp :> rec[keyCol])]
        bound == IF found = {} THEN {created} ELSE found
    IN  [db |-> [d EXCEPT !.nodes =
                    {IF n \in bound THEN [n EXCEPT !.props = SetProps(n.props, sets, rec)]
                                    ELSE n : n \in d.nodes \cup bound}],
         count |-> Cardinality(bound),
         failed |-> FALSE]

\* MERGE(s)-[r:type {keyProp: rec.keyCol}]->(t) SET ... for one row binding s and t
\* (keyProp = "" when the pattern has no property)
MergeRelPair(d, s, t, type, keyProp, keyCol, sets, rec) ==
    LET found == {r \in d.rels :
                    /\ r.src = s /\ r.dst = t /\ r.type = type
                    /\ keyProp # "" => /\ keyProp \in DOMAIN r.props
                                       /\ r.props[keyProp] = rec[keyCol]}
        created == [id |-> Cardinality(d.rels) + 1, src |-> s, dst |-> t, type |-> type,
                    props |-> IF keyProp # "" THEN (keyProp :> rec[keyCol]) ELSE <<>>]
        bound == IF found = {} THEN {created} ELSE found
    IN  [db |-> [d EXCEPT !.rels =
                    {IF r \in bound THEN [r EXCEPT !.props = SetProps(r.props, sets, rec)]
                                    ELSE r : r \in d.rels \cup bound}],
         count |-> Cardinality(bound)]

\* The rows (s, t) of the two MATCH clauses, merged in order of node ids
RECURSIVE MergeRelPairs(_, _, _, _, _, _, _, _)
MergeRelPairs(d, pairs, type, keyProp, keyCol, sets, rec, count) ==
    IF pairs = {} THEN [db |-> d, count |-> count, failed |-> FALSE]
    ELSE LET p == CHOOSE x \in pairs : \A y \in pairs :
                        x[1] < y[1] \/ (x[1] = y[1] /\ x[2] <= y[2])
             r == MergeRelPair(d, p[1], p[2], type, keyProp, keyCol, sets, rec)
         IN  MergeRelPairs(r.db, pairs \ {p}, type, keyProp, keyCol, sets, rec,
                           count + r.count)

\* The fragments that end in a MATCH of an endpoint
MatchClauses == {"\tUNWIND $recs AS rec\n    MATCH(s:", "})\n    MATCH(t:"}

\* clause(x:label {prop: rec.col}) for one row: [db, bound], bound the ids of the
\* nodes x ranges over.  A MATCH binds the nodes there are and writes nothing; any
\* other clause in this place of the statement is a MERGE, which creates the node
\* when there is none
Endpoint(d, clause, label, prop, rec, col) ==
    LET found == IF HasCol(rec, col) THEN MatchNodes(d.nodes, label, prop, rec[col])
                                     ELSE {}
        created == [id |-> Cardinality(d.nodes) + 1, label |-> label,
                    props |-> (prop :> rec[col])]
    IN  IF clause \in MatchClauses \/ found # {} \/ ~HasCol(rec, col)
        THEN [db |-> d, bound |-> {n.id : n \in found}]
        ELSE [db |-> [d EXCEPT !.nodes = @ \cup {created}], bound |-> {created.id}]

\* MATCH(s:...) MATCH(t:...) MERGE(s)-[r:...]->(t) SET ... for one row of $recs
MergeRelRow(d, q, sets, rec) ==
    LET keyed == q[16] = " {"
        keyProp == IF keyed THEN q[17] ELSE ""
        keyCol == IF keyed THEN q[19] ELSE ""
        S == Endpoint(d, q[1], q[2], q[4], rec, q[6])
        T == Endpoint(S.db, q[7], q[8], q[10], rec, q[12])
        pairs == S.bound \X T.bound
    IN  IF pairs # {} /\ keyed /\ ~HasCol(rec, keyCol)
        THEN [db |-> d, count |-> 0, failed |-> TRUE]
        ELSE MergeRelPairs(T.db, pairs, q[15], keyProp, keyCol, sets, rec, 0)

MergeRow(d, q, sets, rec) ==
    IF q[1] = NodeHead THEN MergeNodeRow(d, q[2], q[4], q[6], sets, rec)
    ELSE MergeRelRow(d, q, sets, rec)

\* UNWIND $recs AS rec ... RETURN count(x): [db, count, failed]
RECURSIVE Unwind(_, _, _, _, _)
Unwind(d, q, sets, recs, count) ==
    IF Len(recs) = 0 THEN [db |-> d, count |-> count, failed |-> FALSE]
    ELSE LET r == MergeRow(d, q, sets, recs[1])
         IN  IF r.failed THEN r
             ELSE Unwind(r.db, q, sets, Tail(recs), count + r.count)

\* gds.run_cypher(query, params={'recs': recs}) against the database: a failed
\* statement leaves the database as it was
run_cypher(d, q, recs) ==
    LET r == Unwind(d, q, SetItems(q), recs, 0)
    IN  IF r.failed THEN [db |-> d, count |-> 0, failed |-> TRUE] ELSE r

-----------------------------------------------------------------------------
(* Inputs *)

\* The sequences over S of length at most n
SeqsUpTo(S, n) == UNION {[1..m -> S] : m \in 0..n}

\* The columns of a dataframe, as a set
ColSet(cols) == {cols[i] : i \in 1..Len(cols)}

\* df.to_dict('records'): one mapping from column name to cell value per row
Frames(cols, n) == SeqsUpTo([ColSet(cols) -> Values], n)

NodeColumns == {<<"id">>, <<"id", "p">>}
RelColumns == {<<"src", "dst", "since">>}
EndpointColumns == {<<"src", "dst">>}
ChunkSizes == 0..MaxChunk
PositiveChunkSizes == 1..MaxChunk
Executors == {"db", "stub"}

\* The mapping arguments load_rels is called with: well formed ...
PairMappings ==
    {[source_target_labels |-> Str("A"),
      source_node_key |-> Tuple(<<"id", "src">>),
      target_node_key |-> Tuple(<<"id", "dst">>)]}

\* ... and of another shape: a list, None, a tuple of one, a tuple of three
OtherMappings ==
    {[source_target_labels |-> Str("A"),
      source_node_key |-> List(<<"id", "src">>),
      target_node_key |-> Tuple(<<"id", "dst">>)],
     [source_target_labels |-> None,
      source_node_key |-> Tuple(<<"id", "src">>),
      target_node_key |-> Tuple(<<"id", "dst">>)],
     [source_target_labels |-> Str("A"),
      source_node_key |-> Tuple(<<"id", "src">>),
      target_node_key |-> Tuple(<<"id">>)],
     [source_target_labels |-> Str("A"),
      source_node_key |-> Tuple(<<"id", "src", "since">>),
      target_node_key |-> Tuple(<<"id", "dst">>)]}

RelKeys == {None, Str("since")}

NoArgs == [chunk_size |-> 0]

-----------------------------------------------------------------------------
(* The observable trace *)

Staging(n) == [ev |-> "staging", chunk |-> <<>>, a |-> n, b |-> 0]
QueryText == [ev |-> "query", chunk |-> <<>>, a |-> 0, b |-> 0]
Call(recs) == [ev |-> "run_cypher", chunk |-> recs, a |-> 0, b |-> 0]
Returned(res) == [ev |-> "returned", chunk |-> <<>>, a |-> res, b |-> 0]
Loaded(count, n) == [ev |-> "loaded", chunk |-> <<>>, a |-> count, b |-> n]

-----------------------------------------------------------------------------
(* load_nodes and load_rels *)

Init ==
    /\ pc = "idle" /\ kind = "none" /\ gds = "db" /\ args = NoArgs
    /\ records = <<>> /\ total = 0 /\ query = <<>> /\ chunkList = <<>> /\ k = 0
    /\ cumulative_count = 0 /\ results = <<>> /\ events = <<>> /\ raised = "none"
    /\ db = EmptyDB /\ db0 = EmptyDB /\ relKeysUsed = {} /\ nrows = 0

\* The body of both loaders up to the for loop, query being the synthesizer's result
Stage(g, a, rows, q) ==
    /\ gds' = g /\ args' = a
    /\ records' = rows /\ total' = Len(rows)
    /\ nrows' = nrows + Len(rows)
    /\ k' = 0 /\ results' = <<>> /\ cumulative_count' = 0
    /\ db0' = db /\ db' = db
    /\ IF q.raised # "none"
       THEN /\ query' = <<>> /\ chunkList' = <<>>
            /\ events' = <<Staging(Len(rows))>>
            /\ raised' = q.raised /\ pc' = "raised"
       ELSE /\ query' = q.q /\ chunkList' = chunks(rows, a.chunk_size)
            /\ events' = <<Staging(Len(rows)), QueryText>>
            /\ raised' = "none" /\ pc' = "loop"

load_nodes(E, N) ==
    /\ pc = "idle"
    /\ \E g \in E, cols \in NodeColumns, n \in N :
       \E rows \in Frames(cols, MaxRows - nrows) :
          /\ kind' = "nodes" /\ relKeysUsed' = relKeysUsed
          /\ Stage(g, [node_key_col |-> "id", node_label |-> "A", cols |-> cols,
                       chunk_size |-> n],
                   rows,
                   [raised |-> "none", q |-> _make_node_merge_query("id", "A", cols)])

load_rels(E, M, K, C, N) ==
    /\ pc = "idle"
    /\ \E g \in E, cols \in C, n \in N, m \in M, key \in K :
       \E rows \in Frames(cols, MaxRows - nrows) :
          /\ kind' = "rels" /\ relKeysUsed' = relKeysUsed \cup {key}
          /\ Stage(g, [source_target_labels |-> m.source_target_labels,
                       source_node_key |-> m.source_node_key,
                       target_node_key |-> m.target_node_key,
                       rel_type |-> "R", rel_key |-> key, cols |-> cols,
                       chunk_size |-> n],
                   rows,
                   _make_rel_merge_query(m.source_target_labels, m.source_node_key,
                                         m.target_node_key, "R", cols, key))

\* A loop that takes the items of list last to first
Iterate_reversed(list, i) == list[Len(list) - i]

\* The item a for loop over list takes after it has taken i items
Iterate(list, i) == list[i + 1]

\* for recs in chunks(records, chunk_size): res = gds.run_cypher(query, ...) is called
Submit ==
    /\ pc = "loop" /\ k < Len(chunkList)
    /\ k' = k + 1
    /\ events' = Append(events, Call(Iterate(chunkList, k)))
    /\ pc' = "exec"
    /\ UNCHANGED <<kind, gds, args, records, total, query, chunkList,
                   cumulative_count, results, raised, db, db0, relKeysUsed, nrows>>

\* cumulative_count = res.iloc[0, 0], the running total overwritten
Accumulate_overwrite(count, res) == res

\* cumulative_count += res.iloc[0, 0]
Accumulate(count, res) == count + res

\* run_cypher has returned res: accumulate and print the progress line
Complete(res) ==
    /\ cumulative_count' = Accumulate(cumulative_count, res)
    /\ results' = Append(results, res)
    /\ events' = events \o <<Returned(res), Loaded(Accumulate(cumulative_count, res), total)>>
    /\ pc' = "loop"
    /\ UNCHANGED <<kind, gds, args, records, total, query, chunkList, k, raised,
                   db0, relKeysUsed, nrows>>

ExecReturnDb ==
    /\ pc = "exec" /\ gds = "db"
    /\ LET r == run_cypher(db, query, events[Len(events)].chunk)
       IN  /\ ~r.failed
           /\ db' = r.db
           /\ Complete(r.count)

ExecReturnStub ==
    /\ pc = "exec" /\ gds = "stub"
    /\ \E res \in 0..MaxCount : Complete(res)
    /\ db' = db

\* A loader that catches the exception of run_cypher and takes the chunk again
ExecRaise_retry ==
    /\ pc = "exec"
    /\ k' = k - 1
    /\ events' = SubSeq(events, 1, Len(events) - 1)
    /\ pc' = "loop"
    /\ UNCHANGED <<kind, gds, args, records, total, query, chunkList,
                   cumulative_count, results, raised, db, db0, relKeysUsed, nrows>>

\* run_cypher raises (a fault of the connection, or a statement the database
\* rejects): nothing of the chunk is committed and the exception leaves the loader
ExecRaise ==
    /\ pc = "exec"
    /\ raised' = "ExecutionError"
    /\ pc' = "raised"
    /\ UNCHANGED <<kind, gds, args, records, total, query, chunkList, k,
                   cumulative_count, results, events, db, db0, relKeysUsed, nrows>>

\* The for loop is exhausted and the loader returns
Finish ==
    /\ pc = "loop" /\ k = Len(chunkList)
    /\ pc' = "done"
    /\ UNCHANGED <<kind, gds, args, records, total, query, chunkList, k,
                   cumulative_count, results, events, raised, db, db0, relKeysUsed,
                   nrows>>

\* Control is back with the caller; the loader's locals are gone
Return ==
    /\ pc \in {"done", "raised"}
    /\ pc' = "idle" /\ kind' = "none" /\ gds' = "db" /\ args' = NoArgs
    /\ records' = <<>> /\ total' = 0 /\ query' = <<>> /\ chunkList' = <<>> /\ k' = 0
    /\ cumulative_count' = 0 /\ results' = <<>> /\ events' = <<>> /\ raised' = "none"
    /\ db0' = db
    /\ UNCHANGED <<db, relKeysUsed, nrows>>

\* Any execution capability, any shape of mapping
AnyLoadNodes == load_nodes(Executors, ChunkSizes)
AnyLoadRels == load_rels(Executors, PairMappings \cup OtherMappings, {None}, EndpointColumns, ChunkSizes)

Next ==
    \/ AnyLoadNodes
    \/ AnyLoadRels
    \/ Submit
    \/ ExecReturnDb
    \/ ExecReturnStub
    \/ ExecRaise
    \/ Finish
    \/ Return

Spec == Init /\ [][Next]_vars

\* Loads of well-formed mappings into the database
DbLoadNodes == load_nodes({"db"}, PositiveChunkSizes)
DbLoadRels == load_rels({"db"}, PairMappings, RelKeys, RelColumns, PositiveChunkSizes)

NextGraph ==
    \/ DbLoadNodes
    \/ DbLoadRels
    \/ Submit
    \/ ExecReturnDb
    \/ ExecRaise
    \/ Finish
    \/ Return

SpecGraph == Init /\ [][NextGraph]_vars

-----------------------------------------------------------------------------
(* chunks on its own *)

Idle ==
    /\ kind = "none" /\ gds = "db"
    /\ total = 0 /\ query = <<>> /\ chunkList = <<>> /\ k = 0
    /\ cumulative_count = 0 /\ results = <<>> /\ events = <<>> /\ raised = "none"
    /\ db = EmptyDB /\ db0 = EmptyDB /\ relKeysUsed = {} /\ nrows = 0

InitChunks ==
    /\ pc = "chunks"
    /\ records \in Frames(<<"id">>, MaxXs)
    /\ args \in [chunk_size : (0 - MaxN)..MaxN]
    /\ Idle

CallChunks ==
    /\ pc = "chunks"
    /\ chunkList' = chunks(records, args.chunk_size)
    /\ pc' = "chunked"
    /\ UNCHANGED <<kind, gds, args, records, total, query, k, cumulative_count,
                   results, events, raised, db, db0, relKeysUsed, nrows>>

NextChunks == CallChunks

SpecChunks == InitChunks /\ [][NextChunks]_vars

-----------------------------------------------------------------------------
(* The synthesizer on its own *)

\* The sequences of distinct members of S: the column index of a dataframe
Arrangements(S) ==
    {c \in SeqsUpTo(S, Cardinality(S)) : \A i, j \in 1..Len(c) : i # j => c[i] # c[j]}

NodeSynthArgs ==
    [node_key_col : {"id", "name"}, node_label : {"A", "B"},
     cols : Arrangements({"id", "name", "p"}), chunk_size : {0}]

RelSynthArgs ==
    [source_target_labels : {Str("A"), Tuple(<<"A", "A">>), Tuple(<<"A", "B">>)},
     source_node_key : {Str("src"), Tuple(<<"src", "src">>), Tuple(<<"id", "src">>)},
     target_node_key : {Str("dst"), Tuple(<<"dst", "dst">>), Tuple(<<"key", "dst">>)},
     rel_type : {"KNOWS"},
     rel_key : {None, Str("since")},
     cols : Arrangements({"src", "dst", "since", "w"}),
     chunk_size : {0}]

InitQuery ==
    /\ pc = "synth"
    /\ \/ kind = "nodes" /\ args \in NodeSynthArgs
       \/ kind = "rels" /\ args \in RelSynthArgs
    /\ records = <<>> /\ gds = "db"
    /\ total = 0 /\ query = <<>> /\ chunkList = <<>> /\ k = 0
    /\ cumulative_count = 0 /\ results = <<>> /\ events = <<>> /\ raised = "none"
    /\ db = EmptyDB /\ db0 = EmptyDB /\ relKeysUsed = {} /\ nrows = 0

SynthNode ==
    /\ pc = "synth" /\ kind = "nodes"
    /\ query' = _make_node_merge_query(args.node_key_col, args.node_label, args.cols)
    /\ pc' = "synthed"
    /\ UNCHANGED <<kind, gds, args, records, total, chunkList, k, cumulative_count,
                   results, events, raised, db, db0, relKeysUsed, nrows>>

SynthRel ==
    /\ pc = "synth" /\ kind = "rels"
    /\ LET r == _make_rel_merge_query(args.source_target_labels, args.source_node_key,
                                      args.target_node_key, args.rel_type, args.cols,
                                      args.rel_key)
       IN  query' = r.q /\ raised' = r.raised
    /\ pc' = "synthed"
    /\ UNCHANGED <<kind, gds, args, records, total, chunkList, k, cumulative_count,
                   results, events, db, db0, relKeysUsed, nrows>>

NextQuery ==
    \/ SynthNode
    \/ SynthRel

SpecQuery == InitQuery /\ [][NextQuery]_vars

-----------------------------------------------------------------------------
(* Properties *)

RECURSIVE Sum(_)
Sum(s) == IF Len(s) = 0 THEN 0 ELSE s[1] + Sum(Tail(s))

RECURSIVE Concat(_)
Concat(ss) == IF Len(ss) = 0 THEN <<>> ELSE ss[1] \o Concat(Tail(ss))

\* The positions at which text f occurs in text q
Occurrences(q, f) ==
    {i \in 1..(Len(q) - Len(f) + 1) : SubSeq(q, i, i + Len(f) - 1) = f}

\* The fragments i..j of a text, none when the text is shorter
Part(q, i, j) == IF j <= Len(q) THEN SubSeq(q, i, j) ELSE <<>>

\* The text "target.col = rec.col"
Assignment(target, col) == <<target, ".", col, " = ", "rec", ".", col>>

\* C2: chunks(xs, n), with m = max(1, n), is a list of slices whose concatenation
\* in order is xs; every chunk but the last has exactly m items and the last has
\* between 1 and m; chunks([], n) is empty; and n <= 0 gives what n = 1 gives,
\* one chunk per item.
C2_ChunksPartition ==
    pc = "chunked" =>
        LET n == args.chunk_size
            m == IF n >= 1 THEN n ELSE 1
            c == chunkList
        IN  /\ Concat(c) = records
            /\ \A j \in 1..(Len(c) - 1) : Len(c[j]) = m
            /\ Len(c) > 0 => Len(c[Len(c)]) >= 1 /\ Len(c[Len(c)]) <= m
            /\ records = <<>> => c = <<>>
            /\ n <= 0 => c = [j \in 1..Len(records) |-> <<records[j]>>]

\* C2 witness: a partition into three chunks whose last is the shorter remainder
C2_Witness ==
    /\ pc = "chunked" /\ args.chunk_size = 2
    /\ Len(records) = 5 /\ Len(chunkList) = 3 /\ Len(chunkList[3]) = 1

\* The (property, column) pair a key or label argument stands for
PairOf(x) == IF x.t = "str" THEN <<x.v[1], x.v[1]>> ELSE x.v

\* C9: a key given as the single name k and as the pair (k, k) produce the same
\* relationship query, and so does a label given once and as the pair of itself;
\* a key given as the pair (p, c) produces an endpoint MATCH comparing property p
\* with rec.c.
C9_KeyNormalization ==
    pc = "synthed" /\ kind = "rels" =>
        LET a == args
            Q(l, s, t) == _make_rel_merge_query(l, s, t, a.rel_type, a.cols, a.rel_key).q
            l == a.source_target_labels
            s == a.source_node_key
            t == a.target_node_key
        IN  /\ raised = "none"
            /\ l.t = "str" => query = Q(Tuple(<<l.v[1], l.v[1]>>), s, t)
            /\ s.t = "str" => query = Q(l, Tuple(<<s.v[1], s.v[1]>>), t)
            /\ t.t = "str" => query = Q(l, s, Tuple(<<t.v[1], t.v[1]>>))
            /\ Part(query, 1, 7) = <<RelHead, PairOf(l)[1], " {", PairOf(s)[1],
                                       ": rec.", PairOf(s)[2], RelMatchT>>
            /\ Part(query, 8, 13) = <<PairOf(l)[2], " {", PairOf(t)[1],
                                        ": rec.", PairOf(t)[2], RelMatchEnd>>

\* C9 witness: a single label, a single-name key and a renaming pair in one call
C9_Witness ==
    /\ pc = "synthed" /\ kind = "rels"
    /\ args.source_target_labels = Str("A")
    /\ args.source_node_key = Tuple(<<"id", "src">>)
    /\ args.target_node_key = Str("dst")
    /\ Occurrences(query, <<"A", " {", "id", ": rec.", "src">>) # {}

\* The columns the synthesized query must not assign, and the element it assigns to
KeyColumns ==
    IF kind = "nodes" THEN {args.node_key_col}
    ELSE {PairOf(args.source_node_key)[2], PairOf(args.target_node_key)[2]}
         \cup (IF args.rel_key.t = "str" THEN {args.rel_key.v[1]} ELSE {})

Target == IF kind = "nodes" THEN "n" ELSE "r"

\* C10: the query holds exactly one assignment target.col = rec.col per non-key
\* column, in column order, and none for a key column; with no non-key column it
\* has no SET clause and is the UNWIND, (MATCH,) MERGE and RETURN count clauses.
C10_SetClause ==
    pc = "synthed" =>
        LET cols == args.cols
            nonkey == {i \in 1..Len(cols) : cols[i] \notin KeyColumns}
            at(i) == Occurrences(query, Assignment(Target, cols[i]))
            body == IF kind = "nodes" THEN 7
                    ELSE IF args.rel_key.t = "str" THEN 20 ELSE 16
        IN  /\ \A i \in 1..Len(cols) :
                  Cardinality(at(i)) = IF i \in nonkey THEN 1 ELSE 0
            /\ \A i, j \in nonkey :
                  i < j => \A x \in at(i), y \in at(j) : x < y
            /\ Cardinality(Occurrences(query, <<" = ">>)) = Cardinality(nonkey)
            /\ Cardinality(Occurrences(query, <<"SET ">>)) = IF nonkey = {} THEN 0 ELSE 1
            /\ query[1] = IF kind = "nodes" THEN NodeHead ELSE RelHead
            /\ query[Len(query)] = IF kind = "nodes" THEN NodeReturn ELSE RelReturn
            /\ nonkey = {} => Len(query) = body + 1
            /\ nonkey # {} => /\ Len(query) = body + 2 + 8 * Cardinality(nonkey)
                              /\ query[body + 2] = "SET "

\* C10 witness: a relationship query over key, disambiguation and two property
\* columns, the property columns not adjacent in the column index
C10_Witness ==
    /\ pc = "synthed" /\ kind = "rels" /\ args.rel_key = Str("since")
    /\ args.cols = <<"w", "src", "since", "dst">>
    /\ args.source_node_key = Tuple(<<"id", "src">>)
    /\ Occurrences(query, Assignment("r", "w")) # {}

-----------------------------------------------------------------------------
(* Properties of the loaders *)

\* The run_cypher calls of the trace, in order
Calls == SelectSeq(events, LAMBDA e : e.ev = "run_cypher")

\* A load whose query was synthesized is under way or has ended
Loading == pc \in {"loop", "exec", "done", "raised"} /\ query # <<>>

\* C1: whatever the execution capability returns and whatever the chunk size, the
\* running total is the sum of the scalars the run_cypher calls returned, and so
\* is the count of the last progress line; a load of no records that reaches its
\* loop makes no run_cypher call, reports a total of zero and raises nothing.
C1_CumulativeCount ==
    Loading =>
        /\ cumulative_count = Sum(results)
        /\ total = Len(records)
        /\ pc = "done" =>
              /\ Len(results) = Len(chunkList)
              /\ raised = "none"
              /\ Len(results) > 0 =>
                    events[Len(events)] = Loaded(Sum(results), Len(records))
        /\ records = <<>> =>
              /\ Calls = <<>> /\ results = <<>>
              /\ cumulative_count = 0 /\ total = 0 /\ raised = "none"
              /\ events = <<Staging(0), QueryText>>

\* C1 witness: a finished load over a stub whose scalars are not the chunk sizes
C1_Witness ==
    /\ pc = "done" /\ gds = "stub" /\ Len(results) = 3
    /\ results = <<1, 0, 1>> /\ cumulative_count = 2 /\ total = 3

\* C3: the k-th run_cypher call carries the k-th chunk, a call is made only after
\* the call before it has returned and its progress line has been printed, a
\* progress line (cumulative count, total) follows every returned call, and a
\* finished load has submitted every chunk exactly once.
C3_SequentialInOrder ==
    Loading =>
        /\ k <= Len(chunkList)
        /\ Len(results) = IF pc \in {"loop", "done"} THEN k ELSE k - 1
        /\ Len(events) = 2 + 3 * Len(results) + (k - Len(results))
        /\ events[1] = Staging(Len(records)) /\ events[2] = QueryText
        /\ \A j \in 1..k : events[3 * j] = Call(chunkList[j])
        /\ \A j \in 1..Len(results) :
              /\ events[3 * j + 1] = Returned(results[j])
              /\ events[3 * j + 2] = Loaded(Sum(SubSeq(results, 1, j)), Len(records))
        /\ pc = "done" => Calls = [j \in 1..Len(chunkList) |-> Call(chunkList[j])]
        /\ chunkList = chunks(records, args.chunk_size)

\* C3 witness: a finished load of three chunks that are pairwise different
C3_Witness ==
    /\ pc = "done" /\ Len(chunkList) = 3 /\ Len(Calls) = 3
    /\ chunkList[1] # chunkList[2] /\ chunkList[2] # chunkList[3]

\* The database after the chunks cs have been run against d one after the other
RECURSIVE Committed(_, _, _)
Committed(d, q, cs) ==
    IF Len(cs) = 0 THEN d ELSE Committed(run_cypher(d, q, cs[1]).db, q, Tail(cs))

\* A step of a call of run_cypher that is under way: it returns, or it raises and
\* the exception leaves the loader with nothing else changed
C4_Step ==
    pc = "exec" =>
        \/ pc' = "loop" /\ Len(results') = Len(results) + 1 /\ k' = k
        \/ /\ pc' = "raised" /\ raised' = "ExecutionError"
           /\ UNCHANGED <<k, results, events, cumulative_count, db>>

\* A step of a loader an exception has left: control goes back to the caller, and
\* the database stays as it is
C4_After == pc = "raised" => pc' = "idle" /\ db' = db

\* After run_cypher has raised on chunk k: chunk k was submitted once and no chunk
\* after it, and the database holds the writes of the chunks 1..k-1
C4_State ==
    pc = "raised" /\ query # <<>> =>
        /\ raised = "ExecutionError"
        /\ k = Len(results) + 1
        /\ Calls = [j \in 1..k |-> Call(chunkList[j])]
        /\ gds = "db" => db = Committed(db0, query, SubSeq(chunkList, 1, k - 1))
        /\ gds = "stub" => db = db0

\* C4: when the run_cypher call of chunk k fails, the error leaves load_nodes /
\* load_rels: chunk k is not submitted again, no later chunk is submitted, and the
\* writes of the chunks before k stay committed.
C4_ErrorPropagates == [](C4_State) /\ [][C4_Step /\ C4_After]_vars

\* C4 witness: the call of the second chunk has raised after the first chunk wrote
C4_Witness ==
    /\ pc = "raised" /\ raised = "ExecutionError" /\ gds = "db"
    /\ k = 2 /\ Len(chunkList) = 3 /\ db # db0

\* A single name, or a (propertyName, columnName) pair
NameOrPair(x) == x.t = "str" \/ (x.t = "tuple" /\ Len(x.v) = 2)

\* C5: a key or label argument of load_rels that is neither a single name nor a
\* pair makes the call fail before a query is built or executed: run_cypher is
\* never called and the database is untouched.
C5_InvalidMappingFailsFast ==
    (/\ kind = "rels"
     /\ pc \in {"loop", "exec", "done", "raised"}
     /\ ~(/\ NameOrPair(args.source_target_labels)
          /\ NameOrPair(args.source_node_key)
          /\ NameOrPair(args.target_node_key)))
    => (/\ pc = "raised" /\ raised # "none"
        /\ query = <<>> /\ Calls = <<>> /\ db = db0)

-----------------------------------------------------------------------------
(* Properties of the graph *)

\* The nodes of d a record's endpoint column col selects, by the call's mapping
Ends(d, label, key, rec) == MatchNodes(d.nodes, label, key[1], rec[key[2]])
Sources(d, rec) ==
    Ends(d, PairOf(args.source_target_labels)[1], PairOf(args.source_node_key), rec)
Targets(d, rec) ==
    Ends(d, PairOf(args.source_target_labels)[2], PairOf(args.target_node_key), rec)

\* Both endpoints of a relationship record exist
Present(d, rec) == Sources(d, rec) # {} /\ Targets(d, rec) # {}

\* The relationships of d from node s to node t
Between(d, s, t) == {r \in d.rels : r.src = s.id /\ r.dst = t.id /\ r.type = "R"}

\* The last record with the values of rec in the columns cs
Last(rec, cs) ==
    records[CHOOSE i \in 1..Len(records) :
               /\ \A c \in cs : records[i][c] = rec[c]
               /\ \A j \in (i + 1)..Len(records) : \E c \in cs : records[j][c] # rec[c]]

\* C6: after load_nodes has returned, loading the same records again, with any
\* chunk size, leaves the graph as it is; every record has exactly one node of the
\* label with its key value, a key that had a node before the load still has that
\* node and no other, and the other properties of a node are the values of the
\* last record with its key.
C6_NodeUpsertIdempotent ==
    /\ \A n1, n2 \in db.nodes :
          n1.label = n2.label /\ n1.props["id"] = n2.props["id"] => n1 = n2
    /\ pc = "done" /\ kind = "nodes" =>
          LET key == args.node_key_col
              of(d, rec) == MatchNodes(d.nodes, args.node_label, key, rec[key])
          IN  /\ \A n \in ChunkSizes \cup {Len(records)} :
                    Committed(db, query, chunks(records, n)) = db
              /\ \A i \in 1..Len(records) :
                    /\ Cardinality(of(db, records[i])) = 1
                    /\ of(db0, records[i]) # {} =>
                          {n.id : n \in of(db, records[i])}
                             = {n.id : n \in of(db0, records[i])}
                    /\ \A n \in of(db, records[i]) :
                          \A c \in ColSet(args.cols) \ {key} :
                             n.props[c] = Last(records[i], {key})[c]
              /\ Cardinality(db.nodes) = Cardinality(db0.nodes)
                    + Cardinality({records[i][key] : i \in {j \in 1..Len(records) :
                                                         of(db0, records[j]) = {}}})

\* C6 witness: the load ran in two chunks, its records repeat a key with another
\* value of p, and that key had its node before the load
C6_Witness ==
    /\ pc = "done" /\ kind = "nodes" /\ args.cols = <<"id", "p">>
    /\ Len(chunkList) = 2 /\ db0.nodes # {} /\ db # db0
    /\ records[1]["id"] = records[2]["id"] /\ records[1]["p"] # records[2]["p"]
    /\ MatchNodes(db0.nodes, "A", "id", records[1]["id"]) # {}

\* The records of a chunk whose endpoints both exist
Matched(chunk) == SelectSeq(chunk, LAMBDA rec : Present(db0, rec))

\* C7: load_rels never changes the set of nodes; a record with a missing endpoint
\* adds nothing to the count its chunk returns (when a chunk has returned, its
\* count is what the chunk returns without that record, and zero when every record
\* misses an endpoint), creates no relationship and raises no error.
C7_NoNodeCreated ==
    kind = "rels" /\ Loading =>
        /\ db.nodes = db0.nodes
        /\ pc = "loop" /\ k > 0 =>
              LET before == Committed(db0, query, SubSeq(chunkList, 1, k - 1))
                  matched == Matched(chunkList[k])
              IN  /\ results[k] = run_cypher(before, query, matched).count
                  /\ db = run_cypher(before, query, matched).db
                  /\ matched = <<>> => results[k] = 0 /\ db = before
                  /\ results[k] >= Len(matched)
        /\ \A r \in db.rels :
              \/ \E r0 \in db0.rels : r0.id = r.id /\ r0.src = r.src /\ r0.dst = r.dst
              \/ \E i \in 1..Len(records) :
                    /\ Present(db0, records[i])
                    /\ r.src \in {n.id : n \in Sources(db0, records[i])}
                    /\ r.dst \in {n.id : n \in Targets(db0, records[i])}
        /\ pc = "exec" => ~run_cypher(db, query, chunkList[k]).failed
        /\ (\A i \in 1..Len(records) : ~Present(db0, records[i])) => db = db0

\* C7 witness: a finished load with one record whose source exists and whose target
\* does not, and one record with both endpoints
C7_Witness ==
    /\ pc = "done" /\ kind = "rels" /\ Len(records) = 2
    /\ Sources(db0, records[1]) # {} /\ Targets(db0, records[1]) = {}
    /\ Present(db0, records[2])
    /\ cumulative_count = 1 /\ Cardinality(db.rels) = 1

\* The values of property p of r: one, or none when r has no such property
Prop(r, p) == IF p \in DOMAIN r.props THEN {r.props[p]} ELSE {}

\* C8: without rel_key the MERGE has no property filter: while every load_rels call
\* so far was made without one, two nodes have at most one relationship between
\* them, and a finished load has set its properties to the values of the last
\* record for the two nodes.  With rel_key the MERGE embeds {key: rec.key}: while
\* every call so far was made with it, two nodes have exactly one relationship per
\* key value loaded for them, parallel relationships included.
C8_DisambiguationKey ==
    /\ kind = "rels" /\ Loading =>
          IF args.rel_key = None
          THEN Part(query, 14, 16) = <<"MERGE(s)-[r:", args.rel_type, "]->(t)">>
          ELSE Part(query, 14, 20) =
                  <<"MERGE(s)-[r:", args.rel_type, " {", args.rel_key.v[1], ": rec.",
                    args.rel_key.v[1], "}]->(t)">>
    /\ relKeysUsed \subseteq {None} =>
          \A r1, r2 \in db.rels :
             r1.src = r2.src /\ r1.dst = r2.dst /\ r1.type = r2.type => r1 = r2
    /\ relKeysUsed \subseteq {Str("since")} =>
          \A r1, r2 \in db.rels :
             /\ Prop(r1, "since") # {}
             /\ (/\ r1.src = r2.src /\ r1.dst = r2.dst /\ r1.type = r2.type
                 /\ Prop(r1, "since") = Prop(r2, "since")) => r1 = r2
    /\ kind = "rels" /\ pc = "done" =>
          \A i \in 1..Len(records) : \A s \in Sources(db, records[i]) :
             \A t \in Targets(db, records[i]) :
                IF args.rel_key = None
                THEN /\ Between(db, s, t) # {}
                     /\ \A r \in Between(db, s, t) :
                           Prop(r, "since") = {Last(records[i], {"src", "dst"})["since"]}
                ELSE /\ {r \in Between(db, s, t) :
                           Prop(r, "since") = {records[i]["since"]}} # {}
                     /\ relKeysUsed = {Str("since")} =>
                           Cardinality({Prop(r, "since") : r \in Between(db, s, t)})
                              = Cardinality(Between(db, s, t))

\* C8 witness: loads with rel_key only, and two parallel relationships
C8_Witness ==
    /\ pc = "done" /\ kind = "rels" /\ relKeysUsed = {Str("since")}
    /\ \E r1, r2 \in db.rels :
          /\ r1.src = r2.src /\ r1.dst = r2.dst /\ r1.id # r2.id
          /\ Prop(r1, "since") # Prop(r2, "since")

====
